---- MODULE Spec2Model ----
(***************************************************************************)
(* book-api: an Express REST service over a PostgreSQL store (knex) with   *)
(* JWT authentication.  The model covers the auth routes                   *)
(* (routes/auth.js), the self-service user routes (routes/users.js), the   *)
(* author routes (routes/authors.js) and the two middlewares               *)
(* (middleware/validate.js, middleware/auth.js).                           *)
(*                                                                         *)
(* A handler is one action per stretch of code between two awaited store   *)
(* queries: a lookup-then-mutate handler is two actions, and the handlers  *)
(* of different requests interleave between them.  Two handlers can be     *)
(* suspended at the same time: every race of this service is between two   *)
(* requests.                                                               *)
(*                                                                         *)
(* Text values whose length or content the code inspects (user names,      *)
(* passwords) are sequences of one-character strings; e-mail addresses     *)
(* are strings classified by tables.  Time is counted in hours, and the    *)
(* token lifetimes (environment settings) are scaled down to hours.        *)
(***************************************************************************)
EXTENDS Integers, Sequences, FiniteSets, Bags, TLC

VARIABLES
    users,          \* table users: a set of rows
    nextUserId,     \* the serial behind users.id
    authors,        \* table authors: a set of rows
    nextAuthorId,   \* the serial behind authors.id
    now,            \* the clock (hours)
    held,           \* the tokens the clients got from login / refresh-token,
                    \* and how often they exchanged the refresh token
    pending,        \* the handlers suspended at an await: a bag of continuations
    last            \* the request answered last and its response; none
                    \* while the request that arrived last awaits the store

vars == <<users, nextUserId, authors, nextAuthorId, now, held, pending, last>>

store == <<users, nextUserId, authors, nextAuthorId>>

-----------------------------------------------------------------------------
(* Bounds of the model *)

MaxUsers == 2        \* ids the users serial hands out
MaxAuthors == 2      \* ids the authors serial hands out
MaxTime == 2         \* hours the clock runs
MaxPage == 2         \* ?page=
MaxLimit == 2        \* ?limit=
MaxExchanges == 2    \* exchanges of one refresh token the clients count

-----------------------------------------------------------------------------
(* Values *)

Null == <<>>

\* user names
UnAlice == <<"a", "l", "i", "c", "e">>
UnBob == <<"b", "o", "b">>
UnAl == <<"a", "l">>
UnBlank == <<" ">>
Usernames == {UnAlice, UnBob, UnAl, UnBlank}

\* passwords
PwHunter == <<"h", "u", "n", "t", "e", "r", "2">>
PwSecret == <<"s", "e", "c", "r", "e", "t">>
PwShort == <<"a", "b", "c">>
PwEmpty == <<>>
Passwords == {PwHunter, PwSecret, PwShort, PwEmpty}

\* e-mail addresses as they arrive in a payload
RawEmails == {"a@x.io", "A@x.io", "b@x.io", "B@x.io", "not-an-email"}

\* the handlers that can be suspended at the same time
Handlers == {"h1", "h2"}

-----------------------------------------------------------------------------
(* express-validator sanitizers and validators *)

RECURSIVE TrimLeft(_)
TrimLeft(s) == IF s # <<>> /\ Head(s) = " " THEN TrimLeft(Tail(s)) ELSE s

RECURSIVE TrimRight(_)
TrimRight(s) ==
    IF s # <<>> /\ s[Len(s)] = " " THEN TrimRight(SubSeq(s, 1, Len(s) - 1)) ELSE s

\* .trim()
Trim(s) == TrimRight(TrimLeft(s))

\* .isEmail()
IsEmail(e) == e \in {"a@x.io", "A@x.io", "b@x.io", "B@x.io"}

\* .normalizeEmail(): lower-cases the address
NormalizeEmail(e) ==
    IF e = "A@x.io" THEN "a@x.io" ELSE IF e = "B@x.io" THEN "b@x.io" ELSE e

FieldError(path, msg, value) == [path |-> path, msg |-> msg, value |-> value]

OnFail(failed, path, msg, value) ==
    IF failed THEN <<FieldError(path, msg, value)>> ELSE <<>>

UsernameMin == 3
UsernameMax == 30
PasswordMin == 6

\* the rule chains of POST /auth/register
RegisterRules(body) ==
    LET u == Trim(body.username) IN
    OnFail(u = <<>>, "username", "Username is required", u)
    \o OnFail(Len(u) < UsernameMin \/ Len(u) > UsernameMax, "username",
              "Username must be between 3 and 30 characters", u)
    \o OnFail(~IsEmail(body.email), "email", "Invalid email format", body.email)
    \o OnFail(Len(body.password) < PasswordMin, "password",
              "Password must be at least 6 characters long", body.password)

\* the rule chains of POST /auth/login
LoginRules(body) ==
    OnFail(~IsEmail(body.email), "email", "Invalid email format", body.email)
    \o OnFail(body.password = <<>>, "password", "Password is required",
              body.password)

\* the rule chains of PUT /users/me
PutMeRules(body) ==
    LET u == Trim(body.username) IN
    OnFail(u = <<>>, "username", "Username is required", u)
    \o OnFail(~IsEmail(body.email), "email", "Invalid email format", body.email)

-----------------------------------------------------------------------------
(* Responses *)

\* types/response.js
responseFormat ==
    [success |-> TRUE, message |-> "", data |-> Null, errors |-> Null,
     statusCode |-> 200]

\* { ...responseFormat, ...over }
Envelope(over) ==
    [f \in DOMAIN responseFormat \cup DOMAIN over |->
        IF f \in DOMAIN over THEN over[f] ELSE responseFormat[f]]

\* the envelope as JSON when over[drop] is undefined: res.json omits the key
EnvelopeWithout(over, drop) ==
    [f \in (DOMAIN responseFormat \cup DOMAIN over) \ {drop} |->
        IF f \in DOMAIN over THEN over[f] ELSE responseFormat[f]]

Failure(code, msg) ==
    Envelope([success |-> FALSE, message |-> msg, statusCode |-> code])

FailureWith(code, msg, errors) ==
    Envelope([success |-> FALSE, message |-> msg, errors |-> errors,
              statusCode |-> code])

Reply(status, body) == [status |-> status, body |-> body]

\* validate: the 400 of a failed validation, or next()
validate(errs) ==
    IF errs # <<>>
    THEN [next |-> FALSE,
          reply |-> Reply(400, [status |-> "error",
                                message |-> "Validation failed",
                                errors |-> errs])]
    ELSE [next |-> TRUE, reply |-> Reply(0, Null)]

-----------------------------------------------------------------------------
(* bcrypt *)

\* bcrypt.hash(password, 10) with the salt it drew; the third component
\* stands for the digest of (salt, password)
bcryptHash(password, salt) == <<"$2b$10$", salt, password>>

\* bcrypt draws a random salt for every hash: the n-th hash gets the n-th salt
FreshSalt(n) == <<"salt", n>>

\* a comparison that lets any password through
bcryptCompareAny(password, hash) == TRUE

\* bcrypt.compare(password, hash)
bcryptCompare(password, hash) == hash = bcryptHash(password, hash[2])

-----------------------------------------------------------------------------
(* jsonwebtoken *)

ACCESS_TOKEN_SECRET == "access-token-secret"
REFRESH_TOKEN_SECRET == "refresh-token-secret"

\* expiresIn, in hours
AccessTokenExpiry == 1
RefreshTokenExpiry == 2

NoToken == [none |-> TRUE]

\* jwt.sign(payload, secret, { expiresIn })
jwtSign(payload, secret, expiresIn, t) ==
    [payload |-> payload, secret |-> secret, iat |-> t, exp |-> t + expiresIn]

\* a verification that does not look at the expiry
jwtVerifyIgnoreExpiration(token, secret, t) ==
    /\ token # NoToken
    /\ token.secret = secret

\* jwt.verify(token, secret) does not throw
jwtVerify(token, secret, t) ==
    /\ token # NoToken
    /\ token.secret = secret
    /\ t < token.exp

\* the message of the error jwt.verify throws
jwtError(token, secret, t) ==
    IF token.secret # secret THEN <<"invalid signature">> ELSE <<"jwt expired">>

\* a token for user 1 signed by somebody who does not know the secrets
ForgedToken == jwtSign([id |-> 1], "attacker-secret", MaxTime + 1, 0)

\* Authorization headers; `as` says which of its tokens the client sends
\* ("access", "refresh", "forged" or "none") and is no part of the header
NoHeader == [scheme |-> "none", token |-> NoToken, as |-> "none"]
BasicHeader == [scheme |-> "Basic", token |-> NoToken, as |-> "none"]
Bearer(token, as) ==
    [scheme |-> "Bearer", token |-> token,
     as |-> IF token = NoToken THEN "none" ELSE as]

\* authenticate: the 401 / 403 of a rejected header, or next() with req.user
authenticate(hdr, t) ==
    IF hdr.scheme # "Bearer"
    THEN [next |-> FALSE, user |-> Null,
          reply |-> Reply(401, [error |-> "Authorization header missing or malformed"])]
    ELSE IF hdr.token = NoToken
    THEN [next |-> FALSE, user |-> Null,
          reply |-> Reply(401, [error |-> "Access token not provided"])]
    ELSE IF ~jwtVerify(hdr.token, ACCESS_TOKEN_SECRET, t)
    THEN [next |-> FALSE, user |-> Null,
          reply |-> Reply(403, [error |-> "Invalid or expired token"])]
    ELSE [next |-> TRUE, user |-> hdr.token.payload, reply |-> Reply(0, Null)]

-----------------------------------------------------------------------------
(* The store *)

\* users.email and authors.email are unique: the insert of a row whose email
\* another row holds fails
EmailTaken(table, email) == \E r \in table : r.email = email

\* the update of the row `id` to `email` fails when another row holds it
EmailTakenByOther(table, id, email) ==
    \E r \in table : r.id # id /\ r.email = email

\* the message of the store's unique-violation error
DuplicateKey(constraint) ==
    <<"duplicate key value violates unique constraint", constraint>>

\* a lookup that forgets its where clause
ByIdAny(table, id) == table

\* .where({ id })
ById(table, id) == {r \in table : r.id = id}

\* a projection that returns the whole row
UserColumnsAll(row) == row

\* .returning(['id', 'username', 'email', 'created_at', 'updated_at'])
UserColumns(row) ==
    [id |-> row.id, username |-> row.username, email |-> row.email,
     created_at |-> row.created_at, updated_at |-> row.updated_at]

\* a row that keeps the password as it was submitted
NewUserRowPlain(id, username, email, password, salt, dateNow) ==
    [id |-> id, username |-> username, email |-> email,
     password |-> password,
     created_at |-> dateNow, updated_at |-> dateNow]

\* the row POST /auth/register inserts
\* a row that takes the lowest id no row has, as a table without a serial
\* would
NewUserRowReusedId(id, username, email, password, salt, dateNow) ==
    [id |-> CHOOSE n \in 1..id :
              /\ \A r \in users : r.id # n
              /\ \A m \in 1..(n - 1) : \E r \in users : r.id = m,
     username |-> username, email |-> email,
     password |-> bcryptHash(password, salt),
     created_at |-> dateNow, updated_at |-> dateNow]

NewUserRow(id, username, email, password, salt, dateNow) ==
    [id |-> id, username |-> username, email |-> email,
     password |-> bcryptHash(password, salt),
     created_at |-> dateNow, updated_at |-> dateNow]

-----------------------------------------------------------------------------
(* Requests and responses *)

\* what a request presented, as of its arrival: the token's signing secret,
\* whether its expiry had passed, and its subject
Presented(hdr, t) ==
    [scheme |-> hdr.scheme, as |-> hdr.as,
     secret |-> IF hdr.token = NoToken THEN "none" ELSE hdr.token.secret,
     expired |-> hdr.token # NoToken /\ t >= hdr.token.exp,
     sub |-> IF hdr.token = NoToken THEN 0 ELSE hdr.token.payload.id]

Req(route, hdr, payload) ==
    [route |-> route, cred |-> Presented(hdr, now), payload |-> payload]

\* no response on the wire
NoRequest ==
    [req |-> [route |-> "none", cred |-> Presented(NoHeader, 0), payload |-> Null],
     status |-> 0, body |-> Null]

\* res.status(..).json(..)
Answer(req, reply) ==
    last' = [req |-> req, status |-> reply.status, body |-> reply.body]

\* the handler awaits a store query: it goes on as continuation k, and its
\* request has no response yet
Suspend(k) ==
    /\ BagCardinality(pending) < Cardinality(Handlers)
    /\ pending' = pending (+) SetToBag({k})
    /\ last' = NoRequest

\* the awaited query of continuation k is answered
Resume(k) == pending' = pending (-) SetToBag({k})

Suspended(op) == {k \in BagToSet(pending) : k.op = op}

\* the headers a client can send
HeaderInputs ==
    {NoHeader, BasicHeader, Bearer(held.access, "access"),
     Bearer(held.refresh, "refresh"), Bearer(ForgedToken, "forged")}

\* the tokens a client can send as refresh token, as headers are written
RefreshInputs ==
    {Bearer(held.access, "access"), Bearer(held.refresh, "refresh"),
     Bearer(ForgedToken, "forged")}

\* those of them that login did not issue as refresh token
NoRefreshInputs == {sent \in RefreshInputs : sent.as # "refresh"}

-----------------------------------------------------------------------------
(* routes/auth.js *)

\* POST /auth/register up to the existence check
RegisterCheck(body) ==
    /\ LET v == validate(RegisterRules(body))
           email == NormalizeEmail(body.email)
           req == Req("POST /auth/register", NoHeader, body)
       IN  IF ~v.next
           THEN Answer(req, v.reply) /\ UNCHANGED pending
           ELSE IF EmailTaken(users, email)
           THEN /\ Answer(req, Reply(409, Failure(409, "User already exists")))
                /\ UNCHANGED pending
           ELSE /\ nextUserId + Cardinality(Suspended("register")) <= MaxUsers
                /\ Suspend([op |-> "register", req |-> req,
                            username |-> Trim(body.username),
                            email |-> email, password |-> body.password,
                            dateNow |-> now])
    /\ UNCHANGED <<store, now, held>>

\* POST /auth/register from the hash on: the insert and the response.
\* A failed insert has drawn its id from the serial all the same.
RegisterInsert(k) ==
    /\ k.op = "register"
    /\ LET row == NewUserRow(nextUserId, k.username, k.email, k.password,
                               FreshSalt(nextUserId), k.dateNow)
       IN    IF EmailTaken(users, k.email)
             THEN /\ users' = users
                  /\ Answer(k.req,
                        Reply(500, FailureWith(500, "Registration failed",
                                       DuplicateKey("users_email_unique"))))
             ELSE /\ users' = users \cup {row}
                  /\ Answer(k.req,
                        Reply(201, Envelope([message |-> "User registered successfully",
                                             data |-> UserColumns(row),
                                             statusCode |-> 201])))
    /\ nextUserId' = nextUserId + 1
    /\ Resume(k)
    /\ UNCHANGED <<authors, nextAuthorId, now, held>>

\* tokens that are both signed with the access-token secret
LoginTokensOneSecret(user, t) ==
    [accessToken |->
        jwtSign([id |-> user.id, email |-> user.email], ACCESS_TOKEN_SECRET,
                AccessTokenExpiry, t),
     refreshToken |->
        jwtSign([id |-> user.id, email |-> user.email], ACCESS_TOKEN_SECRET,
                RefreshTokenExpiry, t)]

\* the tokens POST /auth/login signs for `user`
LoginTokens(user, t) ==
    [accessToken |->
        jwtSign([id |-> user.id, email |-> user.email], ACCESS_TOKEN_SECRET,
                AccessTokenExpiry, t),
     refreshToken |->
        jwtSign([id |-> user.id, email |-> user.email], REFRESH_TOKEN_SECRET,
                RefreshTokenExpiry, t)]

\* the response of POST /auth/login
LoginReply(table, body, t) ==
    LET v == validate(LoginRules(body))
        email == NormalizeEmail(body.email)
        found == {u \in table : u.email = email}
    IN  IF ~v.next THEN v.reply
        ELSE IF found = {}
        THEN Reply(401, Failure(401, "Invalid email or password"))
        ELSE LET user == CHOOSE u \in found : TRUE
                 tokens == LoginTokens(user, t)
             IN  IF ~bcryptCompare(body.password, user.password)
                 THEN Reply(401, Failure(401, "Invalid email or password"))
                 ELSE Reply(200,
                        Envelope([message |-> "Login successful",
                                  data |-> [user |-> [id |-> user.id,
                                                      username |-> user.username,
                                                      email |-> user.email],
                                            accessToken |-> tokens.accessToken,
                                            refreshToken |-> tokens.refreshToken],
                                  statusCode |-> 200]))

\* POST /auth/login; the client keeps the tokens of a successful login
Login(body) ==
    /\ LET reply == LoginReply(users, body, now)
       IN  /\ Answer(Req("POST /auth/login", NoHeader, body), reply)
           /\ held' = IF reply.status = 200
                      THEN [access |-> reply.body.data.accessToken,
                            refresh |-> reply.body.data.refreshToken,
                            uses |-> 0]
                      ELSE held
    /\ UNCHANGED <<store, now, pending>>

\* an exchange that signs the new access token for the first user
RefreshReplyFirstUser(refreshToken, t) ==
    IF refreshToken = NoToken
    THEN Reply(401, Failure(401, "Refresh token is required"))
    ELSE IF ~jwtVerify(refreshToken, REFRESH_TOKEN_SECRET, t)
    THEN Reply(403, FailureWith(403, "Invalid refresh token",
                        jwtError(refreshToken, REFRESH_TOKEN_SECRET, t)))
    ELSE Reply(200,
           Envelope([message |-> "Access token refreshed successfully",
                     data |-> [accessToken |->
                                 jwtSign([id |-> 1], ACCESS_TOKEN_SECRET,
                                         AccessTokenExpiry, t)],
                     statusCode |-> 200]))

\* the response of POST /auth/refresh-token
RefreshReply(refreshToken, t) ==
    IF refreshToken = NoToken
    THEN Reply(401, Failure(401, "Refresh token is required"))
    ELSE IF ~jwtVerify(refreshToken, REFRESH_TOKEN_SECRET, t)
    THEN Reply(403, FailureWith(403, "Invalid refresh token",
                        jwtError(refreshToken, REFRESH_TOKEN_SECRET, t)))
    ELSE Reply(200,
           Envelope([message |-> "Access token refreshed successfully",
                     data |-> [accessToken |->
                                 jwtSign([id |-> refreshToken.payload.id],
                                         ACCESS_TOKEN_SECRET,
                                         AccessTokenExpiry, t)],
                     statusCode |-> 200]))

\* POST /auth/refresh-token; the client keeps the new access token
RefreshToken(sent) ==
    /\ held.uses < MaxExchanges
    /\ LET reply == RefreshReply(sent.token, now)
       IN  /\ Answer(Req("POST /auth/refresh-token", sent, Null), reply)
           /\ held' = IF reply.status = 200
                      THEN [held EXCEPT !.access = reply.body.data.accessToken,
                                        !.uses = @ + 1]
                      ELSE held
    /\ UNCHANGED <<store, now, pending>>

-----------------------------------------------------------------------------
(* routes/users.js *)

\* GET /users/me
GetMe(hdr) ==
    /\ LET a == authenticate(hdr, now)
           req == Req("GET /users/me", hdr, Null)
           found == ById(users, a.user.id)
       IN  IF ~a.next THEN Answer(req, a.reply)
           ELSE IF found = {}
           THEN Answer(req, Reply(404, Failure(404, "User not found")))
           ELSE Answer(req,
                  Reply(200, Envelope([success |-> TRUE,
                                       message |-> "User details retrieved successfully",
                                       statusCode |-> 200,
                                       data |-> UserColumns(CHOOSE u \in found : TRUE)])))
    /\ UNCHANGED <<store, now, held, pending>>

\* the data DELETE /users/me returns of the row it looked up
DeletedUserData(deletedUser) ==
    [id |-> deletedUser.id, username |-> deletedUser.username,
     email |-> deletedUser.email, created_at |-> deletedUser.created_at,
     updated_at |-> deletedUser.updated_at]

\* DELETE /users/me up to the lookup
DeleteMeLookup(hdr) ==
    /\ LET a == authenticate(hdr, now)
           req == Req("DELETE /users/me", hdr, Null)
           found == ById(users, a.user.id)
       IN  IF ~a.next THEN Answer(req, a.reply) /\ UNCHANGED pending
           ELSE IF found = {}
           THEN /\ Answer(req, Reply(404, Failure(404, "User not found")))
                /\ UNCHANGED pending
           ELSE /\ Suspend([op |-> "deleteMe", req |-> req, id |-> a.user.id,
                            deletedUser |-> CHOOSE u \in found : TRUE])
    /\ UNCHANGED <<store, now, held>>

\* DELETE /users/me from the delete on
DeleteMeDel(k) ==
    /\ k.op = "deleteMe"
    /\ users' = users \ ById(users, k.id)
    /\ Answer(k.req,
         Reply(200, Envelope([success |-> TRUE,
                              message |-> "User deleted successfully",
                              statusCode |-> 200,
                              data |-> DeletedUserData(k.deletedUser)])))
    /\ Resume(k)
    /\ UNCHANGED <<nextUserId, authors, nextAuthorId, now, held>>

\* PUT /users/me up to the lookup
PutMeLookup(hdr, body) ==
    /\ LET a == authenticate(hdr, now)
           v == validate(PutMeRules(body))
           req == Req("PUT /users/me", hdr, body)
           username == Trim(body.username)
           email == NormalizeEmail(body.email)
       IN  IF ~a.next THEN Answer(req, a.reply) /\ UNCHANGED pending
           ELSE IF ~v.next THEN Answer(req, v.reply) /\ UNCHANGED pending
           ELSE IF username = <<>>
           THEN /\ Answer(req, Reply(400, Failure(400, "Username and email are required")))
                /\ UNCHANGED pending
           ELSE IF ById(users, a.user.id) = {}
           THEN /\ Answer(req, Reply(404, Failure(404, "User not found")))
                /\ UNCHANGED pending
           ELSE /\ Suspend([op |-> "putMe", req |-> req, id |-> a.user.id,
                            username |-> username, email |-> email])
    /\ UNCHANGED <<store, now, held>>

\* .where({ id }).update({ username, email, updated_at })
UpdatedUsers(id, username, email, t) ==
    {IF u.id = id
     THEN [u EXCEPT !.username = username, !.email = email, !.updated_at = t]
     ELSE u : u \in users}

\* PUT /users/me from the update on; the update of no row returns no row, and
\* the response then has no data
PutMeUpdate(k) ==
    /\ k.op = "putMe"
    /\ LET after == UpdatedUsers(k.id, k.username, k.email, now)
           updated == ById(after, k.id)
       IN  IF updated # {} /\ EmailTakenByOther(users, k.id, k.email)
           THEN /\ users' = users
                /\ Answer(k.req,
                     Reply(500, FailureWith(500, "Failed to update user details",
                                    DuplicateKey("users_email_unique"))))
           ELSE /\ users' = after
                /\ Answer(k.req,
                     Reply(200,
                       IF updated = {}
                       THEN EnvelopeWithout([success |-> TRUE,
                                message |-> "User details updated successfully",
                                statusCode |-> 200], "data")
                       ELSE Envelope([success |-> TRUE,
                                message |-> "User details updated successfully",
                                statusCode |-> 200,
                                data |-> UserColumns(CHOOSE u \in updated : TRUE)])))
    /\ Resume(k)
    /\ UNCHANGED <<nextUserId, authors, nextAuthorId, now, held>>

-----------------------------------------------------------------------------
(* routes/authors.js *)

\* author names
AnLeo == <<"L", "e", "o">>
AnLee == <<"l", "e", "e">>
AnBlank == <<" ">>

\* bio: absent from the payload, or a text of some length
BioAbsent == [kind |-> "undefined", len |-> 0]
BioNull == [kind |-> "null", len |-> 0]
BioShort == [kind |-> "text", len |-> 40]
BioLong == [kind |-> "text", len |-> 501]

BioMax == 500
PerPage == 10

\* the rule chains of POST /authors and PUT /authors/:id
AuthorRules(body) ==
    LET n == Trim(body.name) IN
    OnFail(n = <<>>, "name", "Author name is required", n)
    \o OnFail(~IsEmail(body.email), "email", "Invalid email format", body.email)
    \o OnFail(body.bio.kind # "undefined" /\ body.bio.len > BioMax, "bio",
              "Bio must be less than 500 characters", body.bio)

\* lower case, letter by letter
LowerCase(s) == [i \in 1..Len(s) |-> IF s[i] = "L" THEN "l" ELSE s[i]]

\* name ilike %search%
ILike(name, search) ==
    LET n == LowerCase(name)
        p == LowerCase(search)
    IN  \E i \in 0..(Len(n) - Len(p)) : SubSeq(n, i + 1, i + Len(p)) = p

\* baseQuery: the authors, narrowed by ?search= if it is given
BaseQuery(search) ==
    IF search # <<>> THEN {a \in authors : ILike(a.name, search)} ELSE authors

\* the orders .orderBy('created_at', 'desc') can return the rows in
OrderByCreatedDesc(rows) ==
    {r \in [1..Cardinality(rows) -> rows] :
        /\ \A i, j \in DOMAIN r : i # j => r[i] # r[j]
        /\ \A i, j \in DOMAIN r : i < j => r[i].created_at >= r[j].created_at}

\* a page that starts one row early
LimitOffsetEarly(ranked, limit, offset) ==
    SubSeq(ranked, IF offset > 0 THEN offset ELSE 1,
           IF offset + limit < Len(ranked) THEN offset + limit ELSE Len(ranked))

\* .limit(limit).offset(offset)
LimitOffset(ranked, limit, offset) ==
    SubSeq(ranked, offset + 1,
           IF offset + limit < Len(ranked) THEN offset + limit ELSE Len(ranked))

\* Math.ceil(total / limit)
Ceil(total, limit) == (total + limit - 1) \div limit

QueryPage(query) == IF "page" \in DOMAIN query THEN query.page ELSE 1
QueryLimit(query) == IF "limit" \in DOMAIN query THEN query.limit ELSE PerPage

\* the pagination object of GET /authors
Pagination(total, query) ==
    [total |-> total, page |-> QueryPage(query), limit |-> QueryLimit(query),
     pages |-> Ceil(total, QueryLimit(query))]

\* GET /authors up to the count query
ListAuthorsCount(hdr, query) ==
    /\ LET a == authenticate(hdr, now)
           req == Req("GET /authors", hdr, query)
       IN  IF ~a.next THEN Answer(req, a.reply) /\ UNCHANGED pending
           ELSE /\ Suspend([op |-> "listAuthors", req |-> req, query |-> query,
                            total |-> Cardinality(BaseQuery(query.search))])
    /\ UNCHANGED <<store, now, held>>

\* GET /authors from the select query on
ListAuthorsSelect(k) ==
    /\ k.op = "listAuthors"
    /\ \E ranked \in OrderByCreatedDesc(BaseQuery(k.query.search)) :
         Answer(k.req,
           Reply(200, Envelope([success |-> TRUE,
                    message |-> "Authors retrieved successfully",
                    statusCode |-> 200,
                    data |-> LimitOffset(ranked, QueryLimit(k.query),
                                (QueryPage(k.query) - 1) * QueryLimit(k.query)),
                    pagination |-> Pagination(k.total, k.query)])))
    /\ Resume(k)
    /\ UNCHANGED <<store, now, held>>

\* GET /authors/:id
GetAuthor(hdr, id) ==
    /\ LET a == authenticate(hdr, now)
           req == Req("GET /authors/:id", hdr, [id |-> id])
           found == ById(authors, id)
       IN  IF ~a.next THEN Answer(req, a.reply)
           ELSE IF found = {}
           THEN Answer(req, Reply(404, Failure(404, "Author not found")))
           ELSE Answer(req,
                  Reply(200, Envelope([success |-> TRUE,
                                       message |-> "Author retrieved successfully",
                                       statusCode |-> 200,
                                       data |-> CHOOSE r \in found : TRUE])))
    /\ UNCHANGED <<store, now, held, pending>>

\* the row POST /authors inserts; a bio the payload lacks is stored as null
NewAuthorRow(id, name, email, bio, dateNow) ==
    [id |-> id, name |-> name, email |-> email,
     bio |-> IF bio.kind = "undefined" THEN BioNull ELSE bio,
     created_at |-> dateNow, updated_at |-> dateNow]

\* POST /authors.  A failed insert has drawn its id from the serial all the same.
CreateAuthor(hdr, body) ==
    /\ LET a == authenticate(hdr, now)
           v == validate(AuthorRules(body))
           req == Req("POST /authors", hdr, body)
           row == NewAuthorRow(nextAuthorId, Trim(body.name),
                               NormalizeEmail(body.email), body.bio, now)
       IN  IF ~a.next
           THEN Answer(req, a.reply) /\ UNCHANGED <<authors, nextAuthorId>>
           ELSE IF ~v.next
           THEN Answer(req, v.reply) /\ UNCHANGED <<authors, nextAuthorId>>
           ELSE /\ nextAuthorId <= MaxAuthors
                /\ nextAuthorId' = nextAuthorId + 1
                /\ IF EmailTaken(authors, row.email)
                   THEN /\ authors' = authors
                        /\ Answer(req,
                             Reply(500, FailureWith(500, "Failed to create author",
                                            DuplicateKey("authors_email_unique"))))
                   ELSE /\ authors' = authors \cup {row}
                        /\ Answer(req,
                             Reply(201, Envelope([success |-> TRUE,
                                      message |-> "Author created successfully",
                                      statusCode |-> 201,
                                      data |-> row])))
    /\ UNCHANGED <<users, nextUserId, now, held, pending>>

\* PUT /authors/:id up to the lookup
PutAuthorLookup(hdr, id, body) ==
    /\ LET a == authenticate(hdr, now)
           v == validate(AuthorRules(body))
           req == Req("PUT /authors/:id", hdr, [id |-> id, body |-> body])
       IN  IF ~a.next THEN Answer(req, a.reply) /\ UNCHANGED pending
           ELSE IF ~v.next THEN Answer(req, v.reply) /\ UNCHANGED pending
           ELSE IF ById(authors, id) = {}
           THEN /\ Answer(req, Reply(404, Failure(404, "Author not found")))
                /\ UNCHANGED pending
           ELSE /\ Suspend([op |-> "putAuthor", req |-> req, id |-> id,
                            name |-> Trim(body.name),
                            email |-> NormalizeEmail(body.email),
                            bio |-> body.bio, dateNow |-> now])
    /\ UNCHANGED <<store, now, held>>

\* .where({ id }).update({ name, email, bio, updated_at }); a key whose value
\* is undefined is left out of the update
UpdatedAuthors(id, name, email, bio, dateNow) ==
    {IF r.id = id
     THEN [r EXCEPT !.name = name, !.email = email,
                    !.bio = IF bio.kind = "undefined" THEN @ ELSE bio,
                    !.updated_at = dateNow]
     ELSE r : r \in authors}

\* PUT /authors/:id from the update on; the update of no row returns no row,
\* and the response then has no data
PutAuthorUpdate(k) ==
    /\ k.op = "putAuthor"
    /\ LET after == UpdatedAuthors(k.id, k.name, k.email, k.bio, k.dateNow)
           updated == ById(after, k.id)
       IN  IF updated # {} /\ EmailTakenByOther(authors, k.id, k.email)
           THEN /\ authors' = authors
                /\ Answer(k.req,
                     Reply(500, FailureWith(500, "Failed to update author",
                                    DuplicateKey("authors_email_unique"))))
           ELSE /\ authors' = after
                /\ Answer(k.req,
                     Reply(200,
                       IF updated = {}
                       THEN EnvelopeWithout([success |-> TRUE,
                                message |-> "Author updated successfully",
                                statusCode |-> 200], "data")
                       ELSE Envelope([success |-> TRUE,
                                message |-> "Author updated successfully",
                                statusCode |-> 200,
                                data |-> CHOOSE r \in updated : TRUE])))
    /\ Resume(k)
    /\ UNCHANGED <<users, nextUserId, nextAuthorId, now, held>>

\* DELETE /authors/:id that does not look at the number of rows deleted
DeleteAuthorBlind(hdr, id) ==
    /\ LET a == authenticate(hdr, now)
           req == Req("DELETE /authors/:id", hdr, [id |-> id])
       IN  IF ~a.next THEN Answer(req, a.reply) /\ UNCHANGED authors
           ELSE /\ authors' = authors \ ById(authors, id)
                /\ Answer(req,
                     Reply(200, Envelope([success |-> TRUE,
                              message |-> "Author deleted successfully",
                              statusCode |-> 200])))
    /\ UNCHANGED <<users, nextUserId, nextAuthorId, now, held, pending>>

\* DELETE /authors/:id
DeleteAuthor(hdr, id) ==
    /\ LET a == authenticate(hdr, now)
           req == Req("DELETE /authors/:id", hdr, [id |-> id])
       IN  IF ~a.next THEN Answer(req, a.reply) /\ UNCHANGED authors
           ELSE /\ authors' = authors \ ById(authors, id)
                /\ IF ById(authors, id) = {}
                   THEN Answer(req, Reply(404, Failure(404, "Author not found")))
                   ELSE Answer(req,
                          Reply(200, Envelope([success |-> TRUE,
                                   message |-> "Author deleted successfully",
                                   statusCode |-> 200])))
    /\ UNCHANGED <<users, nextUserId, nextAuthorId, now, held, pending>>

\* DELETE /authors that sends every ids it is given to the store
DeleteAuthorsUnguarded(hdr, ids) ==
    /\ LET a == authenticate(hdr, now)
           req == Req("DELETE /authors", hdr, [ids |-> ids])
           hit == {r \in authors : r.id \in ids.items}
       IN  IF ~a.next THEN Answer(req, a.reply) /\ UNCHANGED authors
           ELSE /\ authors' = authors \ hit
                /\ IF hit = {}
                   THEN Answer(req, Reply(404, Failure(404,
                                  "No authors found with the provided IDs")))
                   ELSE Answer(req,
                          Reply(200, Envelope([success |-> TRUE,
                                   message |-> <<Cardinality(hit), "authors deleted successfully">>,
                                   statusCode |-> 200])))
    /\ UNCHANGED <<users, nextUserId, nextAuthorId, now, held, pending>>

\* DELETE /authors; ids is [isArray |-> .., items |-> ..]
DeleteAuthors(hdr, ids) ==
    /\ LET a == authenticate(hdr, now)
           req == Req("DELETE /authors", hdr, [ids |-> ids])
           hit == {r \in authors : r.id \in ids.items}
       IN  IF ~a.next THEN Answer(req, a.reply) /\ UNCHANGED authors
           ELSE IF ~ids.isArray \/ ids.items = {}
           THEN /\ Answer(req, Reply(400, Failure(400, "Invalid or empty IDs array")))
                /\ UNCHANGED authors
           ELSE /\ authors' = authors \ hit
                /\ IF hit = {}
                   THEN Answer(req, Reply(404, Failure(404,
                                  "No authors found with the provided IDs")))
                   ELSE Answer(req,
                          Reply(200, Envelope([success |-> TRUE,
                                   message |-> <<Cardinality(hit), "authors deleted successfully">>,
                                   statusCode |-> 200])))
    /\ UNCHANGED <<users, nextUserId, nextAuthorId, now, held, pending>>

-----------------------------------------------------------------------------
(* The clock *)

Tick ==
    /\ now < MaxTime
    /\ now' = now + 1
    /\ UNCHANGED <<store, held, pending, last>>

-----------------------------------------------------------------------------
(* The service after start-up: empty tables, no request yet *)

Init ==
    /\ users = {}
    /\ nextUserId = 1
    /\ authors = {}
    /\ nextAuthorId = 1
    /\ now = 0
    /\ held = [access |-> NoToken, refresh |-> NoToken, uses |-> 0]
    /\ pending = EmptyBag
    /\ last = NoRequest

-----------------------------------------------------------------------------
(* The payloads the clients send *)

AliceRegisters == [username |-> UnAlice, email |-> "a@x.io", password |-> PwHunter]
AliceLogsIn == [email |-> "a@x.io", password |-> PwHunter]

RegisterBodies ==
    {AliceRegisters,
     [username |-> UnBob, email |-> "A@x.io", password |-> PwSecret],
     [username |-> UnBob, email |-> "b@x.io", password |-> PwSecret],
     [username |-> UnAl, email |-> "b@x.io", password |-> PwHunter],
     [username |-> UnBlank, email |-> "not-an-email", password |-> PwShort],
     [username |-> UnAlice, email |-> "b@x.io", password |-> PwEmpty]}

LoginBodies == [email : RawEmails, password : Passwords]

PutMeBodies ==
    {[username |-> UnAl, email |-> "a@x.io"],
     [username |-> UnBob, email |-> "B@x.io"],
     [username |-> UnBlank, email |-> "not-an-email"]}

LeoBody == [name |-> AnLeo, email |-> "a@x.io", bio |-> BioShort]

AuthorBodies ==
    {LeoBody,
     [name |-> AnLee, email |-> "b@x.io", bio |-> BioAbsent],
     [name |-> AnLee, email |-> "A@x.io", bio |-> BioAbsent],
     [name |-> AnBlank, email |-> "not-an-email", bio |-> BioLong]}

AuthorIds == 1..MaxAuthors

IdLists ==
    {[isArray |-> FALSE, items |-> {}], [isArray |-> TRUE, items |-> {}]}
    \cup {[isArray |-> TRUE, items |-> ids] : ids \in (SUBSET AuthorIds) \ {{}}}

Searches == {<<>>, <<"L">>}

Queries ==
    {[search |-> <<>>]}
    \cup [page : 1..MaxPage, limit : 1..MaxLimit, search : Searches]

\* the access token the client holds has the server's signature and has not
\* expired
LoggedIn ==
    /\ held.access # NoToken
    /\ held.access.secret = ACCESS_TOKEN_SECRET
    /\ now < held.access.exp

\* the header of a client that sends the access token it holds
OwnToken == Bearer(held.access, "access")

\* the headers of a client that sends the access token it holds, or none
OwnHeaders == {NoHeader, Bearer(held.access, "access")}

-----------------------------------------------------------------------------
(* Spec: registration and login, requests interleaving, the clock at rest *)

Next ==
    \/ \E body \in RegisterBodies : RegisterCheck(body)
    \/ \E k \in BagToSet(pending) : RegisterInsert(k)
    \/ \E body \in LoginBodies : Login(body)

Spec == Init /\ [][Next]_vars

-----------------------------------------------------------------------------
(* SpecUsers: two users and the routes of /users/me, requests              *)
(* interleaving, the clock at rest                                         *)

BobRegisters == [username |-> UnBob, email |-> "b@x.io", password |-> PwSecret]
BobLogsIn == [email |-> "b@x.io", password |-> PwSecret]

NextUsers ==
    \/ \E body \in {AliceRegisters, BobRegisters,
                    [username |-> UnBob, email |-> "b@x.io", password |-> PwShort]} :
          RegisterCheck(body)
    \/ \E k \in BagToSet(pending) : RegisterInsert(k)
    \/ \E body \in {AliceLogsIn, BobLogsIn,
                    [email |-> "b@x.io", password |-> PwHunter]} : Login(body)
    \/ \E hdr \in OwnHeaders : GetMe(hdr)
    \/ \E hdr \in OwnHeaders : DeleteMeLookup(hdr)
    \/ \E k \in BagToSet(pending) : DeleteMeDel(k)
    \/ \E hdr \in OwnHeaders, body \in PutMeBodies : PutMeLookup(hdr, body)
    \/ \E k \in BagToSet(pending) : PutMeUpdate(k)

SpecUsers == Init /\ [][NextUsers]_vars

-----------------------------------------------------------------------------
(* SpecAuth: one user, every bearer-protected route, every header, the     *)
(* clock running; the user registers and logs in and the first author is   *)
(* created before the clock starts, and the requests come one after the    *)
(* other                                                                   *)

\* step A, provided it leaves at most one handler suspended
OneAtATime(A) == A /\ BagCardinality(pending') <= 1

\* step A, no handler being suspended
Idle(A) == pending = EmptyBag /\ A

\* step A, before the clock starts
AtStart(A) == now = 0 /\ A

AlUpdates == [username |-> UnAl, email |-> "a@x.io"]
FirstAuthor == [isArray |-> TRUE, items |-> {1}]

NextAuth ==
    \/ AtStart(Idle(RegisterCheck(AliceRegisters)))
    \/ \E k \in BagToSet(pending) : RegisterInsert(k)
    \/ AtStart(Idle(Login(AliceLogsIn)))
    \/ \E sent \in NoRefreshInputs : Idle(RefreshToken(sent))
    \/ \E hdr \in HeaderInputs : Idle(GetMe(hdr))
    \/ \E hdr \in HeaderInputs : Idle(DeleteMeLookup(hdr))
    \/ \E k \in BagToSet(pending) : DeleteMeDel(k)
    \/ \E hdr \in HeaderInputs : Idle(PutMeLookup(hdr, AlUpdates))
    \/ \E k \in BagToSet(pending) : PutMeUpdate(k)
    \/ \E hdr \in HeaderInputs : Idle(ListAuthorsCount(hdr, [search |-> <<>>]))
    \/ \E k \in BagToSet(pending) : ListAuthorsSelect(k)
    \/ \E hdr \in HeaderInputs : Idle(GetAuthor(hdr, 1))
    \/ \E hdr \in HeaderInputs : AtStart(Idle(CreateAuthor(hdr, LeoBody)))
    \/ \E hdr \in HeaderInputs : Idle(PutAuthorLookup(hdr, 1, LeoBody))
    \/ \E k \in BagToSet(pending) : PutAuthorUpdate(k)
    \/ \E hdr \in HeaderInputs : Idle(DeleteAuthor(hdr, 1))
    \/ \E hdr \in HeaderInputs : Idle(DeleteAuthors(hdr, FirstAuthor))
    \/ Tick

SpecAuth == Init /\ [][NextAuth]_vars

-----------------------------------------------------------------------------
(* SpecRefresh: two users log in and exchange refresh tokens for access    *)
(* tokens, the clock running                                               *)

NextRefresh ==
    \/ \E body \in {AliceRegisters, BobRegisters} :
          AtStart(OneAtATime(RegisterCheck(body)))
    \/ \E k \in BagToSet(pending) : RegisterInsert(k)
    \/ \E body \in {AliceLogsIn, BobLogsIn} : Login(body)
    \/ \E sent \in RefreshInputs \cup {Bearer(NoToken, "none")} : RefreshToken(sent)
    \/ \E hdr \in OwnHeaders : GetMe(hdr)
    \/ Tick

SpecRefresh == Init /\ [][NextRefresh]_vars

-----------------------------------------------------------------------------
(* SpecAuthors: one user logs in; authors are created, read, updated and   *)
(* deleted, updates interleaving; the clock at rest                        *)

NextAuthors ==
    \/ OneAtATime(RegisterCheck(AliceRegisters))
    \/ \E k \in BagToSet(pending) : RegisterInsert(k)
    \/ Login(AliceLogsIn)
    \/ \E hdr \in OwnHeaders, id \in AuthorIds : GetAuthor(hdr, id)
    \/ \E hdr \in OwnHeaders, body \in AuthorBodies : CreateAuthor(hdr, body)
    \/ \E hdr \in OwnHeaders, id \in AuthorIds, body \in AuthorBodies :
          PutAuthorLookup(hdr, id, body)
    \/ \E k \in BagToSet(pending) : PutAuthorUpdate(k)
    \/ \E hdr \in OwnHeaders, id \in AuthorIds : DeleteAuthor(hdr, id)
    \/ \E hdr \in OwnHeaders, ids \in IdLists : DeleteAuthors(hdr, ids)

SpecAuthors == Init /\ [][NextAuthors]_vars

-----------------------------------------------------------------------------
(* SpecList: one user logs in, and again when its token has expired; it    *)
(* creates and deletes authors while the clock runs and reads the list     *)
(* page by page, a creation or deletion possibly falling between the       *)
(* list's two queries                                                      *)

LeeBody == [name |-> AnLee, email |-> "b@x.io", bio |-> BioAbsent]

NextList ==
    \/ AtStart(OneAtATime(RegisterCheck(AliceRegisters)))
    \/ \E k \in BagToSet(pending) : RegisterInsert(k)
    \/ Login(AliceLogsIn)
    \/ \E query \in Queries :
          LoggedIn /\ OneAtATime(ListAuthorsCount(OwnToken, query))
    \/ \E k \in BagToSet(pending) : ListAuthorsSelect(k)
    \/ \E id \in AuthorIds : LoggedIn /\ GetAuthor(OwnToken, id)
    \/ \E body \in {LeoBody, LeeBody} : LoggedIn /\ CreateAuthor(OwnToken, body)
    \/ \E id \in AuthorIds : LoggedIn /\ DeleteAuthor(OwnToken, id)
    \/ Tick

SpecList == Init /\ [][NextList]_vars

-----------------------------------------------------------------------------
(* The response envelope *)

EnvelopeFields == {"success", "message", "data", "errors", "statusCode"}

\* C1: every response of every route and middleware, whatever the outcome,
\* is an envelope with the fields success, message, data, errors and
\* statusCode, and no body has another shape.
C1_EveryResponseIsEnvelope ==
    last.status # 0 => DOMAIN last.body = EnvelopeFields

\* GET /users/me without a header has just been refused with a bare
\* {error} body
C1_Witness ==
    /\ last.req.route = "GET /users/me"
    /\ last.req.cred.scheme = "none"
    /\ last.status = 401
    /\ DOMAIN last.body = {"error"}

-----------------------------------------------------------------------------
(* Login *)

\* the users a login payload names together with their password: the stored
\* digest is the one of (salt, password)
Registered(table, body) ==
    {u \in table : /\ u.email = NormalizeEmail(body.email)
                   /\ u.password[3] = body.password}

\* the payload is a well-formed e-mail address and a password that is given
WellFormedLogin(body) == IsEmail(body.email) /\ body.password # <<>>

\* the response carries no data, hence no token
CarriesNoToken(resp) ==
    "data" \in DOMAIN resp.body => resp.body.data = Null

\* the response is a success with an access and a refresh token for user u
CarriesTokensOf(resp, u) ==
    /\ resp.status = 200
    /\ resp.body.data.accessToken.payload.id = u.id
    /\ resp.body.data.accessToken.secret = ACCESS_TOKEN_SECRET
    /\ resp.body.data.refreshToken.payload.id = u.id
    /\ resp.body.data.refreshToken.secret = REFRESH_TOKEN_SECRET

-----------------------------------------------------------------------------
(* Registration *)

\* the payload passes the rules of POST /auth/register
ValidRegistration(body) ==
    /\ Len(Trim(body.username)) >= UsernameMin
    /\ Len(Trim(body.username)) <= UsernameMax
    /\ IsEmail(body.email)
    /\ Len(body.password) >= PasswordMin

\* no stored user holds the e-mail address of the payload
EmailUnused(body) == \A u \in users : u.email # NormalizeEmail(body.email)

\* no stored password is a password as it was submitted
NoPlaintextStored == \A u \in users : u.password \notin Passwords

\* C6: a valid registration whose e-mail no stored user holds (when the
\* insert is made) is not refused, is answered 201 and adds exactly one user
\* row, which holds that e-mail; and in every reachable state no stored
\* password equals the plaintext that was submitted.
C6_Register ==
    /\ []NoPlaintextStored
    /\ [][/\ \A body \in RegisterBodies :
                (RegisterCheck(body) /\ ValidRegistration(body) /\ EmailUnused(body))
                    => last' = NoRequest /\ pending' # pending
          /\ \A k \in BagToSet(pending) :
                (RegisterInsert(k) /\ ValidRegistration(k.req.payload)
                                   /\ EmailUnused(k.req.payload))
                    => /\ last'.status = 201
                       /\ users \subseteq users'
                       /\ Cardinality(users' \ users) = 1
                       /\ \A u \in users' \ users :
                            /\ u.email = NormalizeEmail(k.req.payload.email)
                            /\ u.password # k.req.payload.password]_vars

\* a second user has just been registered
C6_Witness ==
    /\ last.req.route = "POST /auth/register"
    /\ last.status = 201
    /\ Cardinality(users) = 2
    /\ \E u \in users : /\ u.id = last.body.data.id
                        /\ u.email = NormalizeEmail(last.req.payload.email)
                        /\ u.password # last.req.payload.password

-----------------------------------------------------------------------------
(* Passwords in responses *)

\* the plaintext passwords and the stored hashes of the users
UserSecrets ==
    {u.password[3] : u \in users} \cup {u.password : u \in users}

UserRoutes ==
    {"POST /auth/register", "POST /auth/login", "GET /users/me",
     "PUT /users/me", "DELETE /users/me"}

\* the response shows a password: as a field of its data, or as the value a
\* validation error echoes
ShowsPassword(resp) ==
    \/ /\ resp.status \in {200, 201}
       /\ "data" \in DOMAIN resp.body
       /\ resp.body.data # Null
       /\ \/ "password" \in DOMAIN resp.body.data
          \/ /\ "user" \in DOMAIN resp.body.data
             /\ "password" \in DOMAIN resp.body.data.user
    \/ /\ resp.status = 400
       /\ resp.body.errors # Null
       /\ \E i \in DOMAIN resp.body.errors :
            /\ resp.body.errors[i].path = "password"
            /\ resp.body.errors[i].value \in UserSecrets

\* C7: no response of register, login or GET/PUT/DELETE /users/me, success
\* or error, contains a user's password, plaintext or hash.
C7_NoPasswordInResponse ==
    last.req.route \in UserRoutes => ~ShowsPassword(last)

\* a user row (with its password) has just been returned by DELETE /users/me
C7_Witness ==
    /\ last.req.route = "DELETE /users/me"
    /\ last.status = 200
    /\ last.body.data.id = 2
    /\ users # {}

-----------------------------------------------------------------------------
(* Uniqueness of the users' e-mail addresses *)

UniqueUserEmails == \A u, w \in users : u.email = w.email => u = w

\* C9: no two user rows share an e-mail address, and a registration or a
\* PUT /users/me that would break this is answered 409, never 500, in every
\* interleaving.
C9_UserEmailConflict ==
    /\ UniqueUserEmails
    /\ last.req.route \in {"POST /auth/register", "PUT /users/me"}
          => last.status # 500

-----------------------------------------------------------------------------
(* The bearer-protected routes *)

\* a request with header hdr arrives at a protected route
Protected(hdr) ==
    \/ GetMe(hdr)
    \/ DeleteMeLookup(hdr)
    \/ PutMeLookup(hdr, AlUpdates)
    \/ ListAuthorsCount(hdr, [search |-> <<>>])
    \/ GetAuthor(hdr, 1)
    \/ CreateAuthor(hdr, LeoBody)
    \/ PutAuthorLookup(hdr, 1, LeoBody)
    \/ DeleteAuthor(hdr, 1)
    \/ DeleteAuthors(hdr, FirstAuthor)

\* the token is signed with another secret than the access-token secret, or
\* its expiry has elapsed
BadToken(token) ==
    /\ token # NoToken
    /\ token.secret # ACCESS_TOKEN_SECRET \/ now >= token.exp

\* the step answered with the rejection of the middleware: no handler was
\* started and the store is as it was
Rejected ==
    /\ last'.status = 403
    /\ DOMAIN last'.body = {"error"}
    /\ UNCHANGED <<store, pending>>

\* C2: on every bearer-protected route a request whose token is signed with
\* another secret than the access-token secret, or whose expiry has elapsed,
\* is rejected: the handler does not run and the store is unchanged.
C2_BadTokenRejected ==
    [][\A hdr \in HeaderInputs :
         (BadToken(hdr.token) /\ Protected(hdr)) => Rejected]_vars

\* the user's own access token, expired, has just been refused by
\* DELETE /users/me while the user's row and an author exist
C2_Witness ==
    /\ last.req.route = "DELETE /users/me"
    /\ last.req.cred.as = "access"
    /\ last.req.cred.secret = ACCESS_TOKEN_SECRET
    /\ last.req.cred.expired
    /\ last.status = 403
    /\ \E u \in users : u.id = last.req.cred.sub
    /\ authors # {}

\* C3: a refresh token issued by login is rejected as bearer token on every
\* protected route, and an access token presented to
\* POST /auth/refresh-token never yields a new access token.
C3_TokenKindsApart ==
    [][/\ \A hdr \in HeaderInputs :
            (hdr.as = "refresh" /\ Protected(hdr)) => Rejected
       /\ \A sent \in RefreshInputs :
            (sent.as = "access" /\ RefreshToken(sent))
                => /\ last'.status # 200
                   /\ CarriesNoToken(last')
                   /\ held' = held]_vars

\* the refresh token of the user's login, not yet expired, has just been
\* refused as bearer token by PUT /users/me while the user's row exists
C3_Witness ==
    /\ last.req.route = "PUT /users/me"
    /\ last.req.cred.as = "refresh"
    /\ last.req.cred.secret = REFRESH_TOKEN_SECRET
    /\ ~last.req.cred.expired
    /\ last.status = 403
    /\ \E u \in users : u.id = last.req.cred.sub

-----------------------------------------------------------------------------
(* The refresh exchange *)

\* the token is a refresh token that has not expired
ValidRefreshToken(token) ==
    /\ token # NoToken
    /\ token.secret = REFRESH_TOKEN_SECRET
    /\ now < token.exp

\* C4: POST /auth/refresh-token with a valid, unexpired refresh token issues
\* an access token whose subject id is the refresh token's, however often
\* the refresh token was exchanged before; the exchange leaves the refresh
\* token and the store as they were.
C4_RefreshExchange ==
    [][\A sent \in RefreshInputs :
         (ValidRefreshToken(sent.token) /\ RefreshToken(sent))
            => /\ last'.status = 200
               /\ last'.body.data.accessToken.payload.id = sent.token.payload.id
               /\ last'.body.data.accessToken.secret = ACCESS_TOKEN_SECRET
               /\ last'.body.data.accessToken.exp > now
               /\ "refreshToken" \notin DOMAIN last'.body.data
               /\ held'.refresh = held.refresh
               /\ held'.access = last'.body.data.accessToken
               /\ UNCHANGED store]_vars

\* the second user's refresh token has just been exchanged a second time,
\* after the access token of the login had expired
C4_Witness ==
    /\ last.req.route = "POST /auth/refresh-token"
    /\ last.status = 200
    /\ held.uses = 2
    /\ held.refresh.payload.id = 2
    /\ held.access.payload.id = 2
    /\ held.access.iat >= held.refresh.iat + AccessTokenExpiry

-----------------------------------------------------------------------------
(* Uniqueness of the authors' e-mail addresses *)

\* the payload passes the rules of POST /authors and PUT /authors/:id
ValidAuthor(body) ==
    /\ Trim(body.name) # <<>>
    /\ IsEmail(body.email)
    /\ body.bio.kind = "undefined" \/ body.bio.len <= BioMax

\* C8: a POST /authors with the e-mail of a stored author fails as a Conflict
\* (409) and leaves exactly one author row with that e-mail; a
\* PUT /authors/:id that sets an e-mail another author holds fails as a
\* Conflict (409) too.
C8_AuthorEmailConflict ==
    [][/\ \A body \in AuthorBodies :
            (/\ LoggedIn
             /\ ValidAuthor(body)
             /\ EmailTaken(authors, NormalizeEmail(body.email))
             /\ CreateAuthor(Bearer(held.access, "access"), body))
                => /\ last'.status = 409
                   /\ Cardinality({r \in authors' :
                                     r.email = NormalizeEmail(body.email)}) = 1
       /\ \A k \in BagToSet(pending) :
            (/\ ById(authors, k.id) # {}
             /\ EmailTakenByOther(authors, k.id, k.email)
             /\ PutAuthorUpdate(k))
                => last'.status = 409]_vars

\* a second author with the e-mail of the first has just been refused
C8_Witness ==
    /\ last.req.route = "POST /authors"
    /\ last.status = 500
    /\ Cardinality({r \in authors :
                      r.email = NormalizeEmail(last.req.payload.email)}) = 1

-----------------------------------------------------------------------------
(* The list of authors *)

\* the authors whose name contains the search text
Matching(search) ==
    IF search = <<>> THEN authors ELSE {r \in authors : ILike(r.name, search)}

\* ranked lists every row of rows once, the later created first
IsRanking(ranked, rows) ==
    /\ Len(ranked) = Cardinality(rows)
    /\ {ranked[i] : i \in DOMAIN ranked} = rows
    /\ \A i, j \in DOMAIN ranked : i < j => ranked[i].created_at >= ranked[j].created_at

\* the ranks first..last of ranked, as far as they exist
Ranks(ranked, first, lastRank) ==
    LET upto == IF lastRank < Len(ranked) THEN lastRank ELSE Len(ranked)
    IN  [i \in 1..(IF upto >= first THEN upto - first + 1 ELSE 0) |->
            ranked[first + i - 1]]

\* the least number of pages of `limit` rows that hold `total` rows
PagesFor(total, limit) ==
    CHOOSE n \in 0..total : n * limit >= total /\ \A m \in 0..(n - 1) : m * limit < total

\* C10: GET /authors with page >= 1 and limit >= 1 (1 and 10 when the query
\* gives none), the matching authors being `total` in number, answers with
\* pagination = {total, page, limit, pages = ceil(total / limit)} and with
\* the matching authors of ranks (page-1)*limit+1 .. page*limit by
\* descending creation time as data; and pagination is part of no response
\* but the list's.
C10_Pagination ==
    /\ []("pagination" \in DOMAIN last.body => last.req.route = "GET /authors")
    /\ [][\A k \in BagToSet(pending) :
            (ListAuthorsSelect(k)
               /\ k.total = Cardinality(Matching(k.query.search)))
              => LET page == IF "page" \in DOMAIN k.query THEN k.query.page ELSE 1
                     limit == IF "limit" \in DOMAIN k.query THEN k.query.limit ELSE 10
                     total == Cardinality(Matching(k.query.search))
                 IN  /\ last'.status = 200
                     /\ last'.body.pagination =
                          [total |-> total, page |-> page, limit |-> limit,
                           pages |-> PagesFor(total, limit)]
                     /\ \E ranked \in [1..total -> Matching(k.query.search)] :
                          /\ IsRanking(ranked, Matching(k.query.search))
                          /\ last'.body.data =
                               Ranks(ranked, (page - 1) * limit + 1, page * limit)]_vars

\* the second page of one row out of two has just been returned: the author
\* created first
C10_Witness ==
    /\ last.req.route = "GET /authors"
    /\ last.status = 200
    /\ last.body.pagination = [total |-> 2, page |-> 2, limit |-> 1, pages |-> 2]
    /\ Len(last.body.data) = 1
    /\ Cardinality(authors) = 2
    /\ \A r \in authors : r.created_at >= last.body.data[1].created_at
    /\ \E r \in authors : r.created_at > last.body.data[1].created_at

-----------------------------------------------------------------------------
(* The race of two registrations *)

\* a registration has just been refused with 500 while a row, inserted after
\* the registration's existence check, holds its e-mail address
C9_Witness ==
    /\ last.req.route = "POST /auth/register"
    /\ last.status = 500
    /\ ValidRegistration(last.req.payload)
    /\ Cardinality({u \in users :
                      u.email = NormalizeEmail(last.req.payload.email)}) = 1

-----------------------------------------------------------------------------
(* SpecNotFound: one user and one author come and go; the user reads,      *)
(* updates and deletes itself and the authors by id with the token it      *)
(* holds, one request at a time, the clock at rest                         *)

BlankAuthor == [name |-> AnBlank, email |-> "not-an-email", bio |-> BioLong]

NextNotFound ==
    \/ Idle(RegisterCheck(AliceRegisters))
    \/ \E k \in BagToSet(pending) : RegisterInsert(k)
    \/ Idle(Login(AliceLogsIn))
    \/ Idle(LoggedIn /\ GetMe(OwnToken))
    \/ Idle(LoggedIn /\ DeleteMeLookup(OwnToken))
    \/ \E k \in BagToSet(pending) : DeleteMeDel(k)
    \/ Idle(LoggedIn /\ \E body \in PutMeBodies : PutMeLookup(OwnToken, body))
    \/ \E k \in BagToSet(pending) : PutMeUpdate(k)
    \/ Idle(LoggedIn /\ \E id \in AuthorIds : GetAuthor(OwnToken, id))
    \/ Idle(LoggedIn /\ CreateAuthor(OwnToken, LeoBody))
    \/ Idle(LoggedIn /\ \E id \in AuthorIds, body \in {LeoBody, BlankAuthor} :
                           PutAuthorLookup(OwnToken, id, body))
    \/ \E k \in BagToSet(pending) : PutAuthorUpdate(k)
    \/ Idle(LoggedIn /\ \E id \in AuthorIds : DeleteAuthor(OwnToken, id))

SpecNotFound == Init /\ [][NextNotFound]_vars

-----------------------------------------------------------------------------
(* C11: a read, update or delete of a row that is not there *)

\* the client sends an access token authenticate accepts, and the user the
\* token names has no row
OwnRowGone(hdr) ==
    /\ LoggedIn
    /\ hdr = OwnToken
    /\ ById(users, hdr.token.payload.id) = {}

\* the client sends an access token authenticate accepts, and no author
\* has the id
AuthorGone(hdr, id) ==
    /\ LoggedIn
    /\ hdr = OwnToken
    /\ ById(authors, id) = {}

\* the step answers with a 404 failure envelope and changes no row and
\* leaves no handler behind
NotFound ==
    /\ last'.status = 404
    /\ last'.body.success = FALSE
    /\ last'.body.statusCode = 404
    /\ last'.body.data = Null
    /\ UNCHANGED <<store, pending>>

\* the requests of SpecNotFound that target a missing row, the updates
\* among them carrying a payload of userBodies or authorBodies
MissingRowIsNotFound(userBodies, authorBodies) ==
    /\ \A hdr \in OwnHeaders :
         OwnRowGone(hdr) =>
           /\ GetMe(hdr) => NotFound
           /\ DeleteMeLookup(hdr) => NotFound
           /\ \A body \in userBodies : PutMeLookup(hdr, body) => NotFound
    /\ \A hdr \in OwnHeaders, id \in AuthorIds :
         AuthorGone(hdr, id) =>
           /\ GetAuthor(hdr, id) => NotFound
           /\ DeleteAuthor(hdr, id) => NotFound
           /\ \A body \in authorBodies :
                PutAuthorLookup(hdr, id, body) => NotFound

\* C11, as stated: every authenticated GET, PUT or DELETE of /users/me whose
\* user has no row, and of /authors/:id whose author has no row, answers 404
\* and leaves the store as it was, whatever payload the PUT carries.
C11_AsStated ==
    [][MissingRowIsNotFound(PutMeBodies, {LeoBody, BlankAuthor})]_vars

\* C11, amended: an authenticated GET or DELETE of /users/me or /authors/:id
\* whose row is missing, and an authenticated PUT of either whose row is
\* missing and whose payload passes validation, answers with a 404 failure
\* envelope and leaves the store as it was.
C11_NotFound ==
    [][MissingRowIsNotFound({b \in PutMeBodies : PutMeRules(b) = <<>>},
                            {b \in {LeoBody, BlankAuthor} : AuthorRules(b) = <<>>})]_vars

\* PUT /users/me with a valid payload and the unexpired token of a deleted
\* user was answered 404, while no author exists either
C11_Witness ==
    /\ last.req.route = "PUT /users/me"
    /\ last.req.cred.as = "access"
    /\ ~last.req.cred.expired
    /\ PutMeRules(last.req.payload) = <<>>
    /\ last.status = 404
    /\ ById(users, last.req.cred.sub) = {}
    /\ nextUserId > last.req.cred.sub
    /\ authors = {}

-----------------------------------------------------------------------------
(* SpecBatch: a client with or without its token creates authors and        *)
(* deletes them by lists of ids, the clock at rest                          *)

NextBatch ==
    \/ Idle(RegisterCheck(AliceRegisters))
    \/ \E k \in BagToSet(pending) : RegisterInsert(k)
    \/ Login(AliceLogsIn)
    \/ \E hdr \in OwnHeaders, body \in {LeoBody, LeeBody} : CreateAuthor(hdr, body)
    \/ \E hdr \in OwnHeaders, id \in AuthorIds : GetAuthor(hdr, id)
    \/ \E hdr \in OwnHeaders, ids \in IdLists : DeleteAuthors(hdr, ids)

SpecBatch == Init /\ [][NextBatch]_vars

-----------------------------------------------------------------------------
(* C12: DELETE /authors with no usable list of ids *)

\* ids is not an array, or is an array of length 0
NoIds(ids) == ~ids.isArray \/ ids.items = {}

\* C12: DELETE /authors sent with an access token authenticate accepts and
\* with ids that is an empty list or not an array is answered 400 with the
\* fixed failure envelope, which carries nothing of any author row, and the
\* step leaves every row and every awaiting handler as it was.
C12_EmptyIdsRejected ==
    [][\A hdr \in OwnHeaders, ids \in IdLists :
         (LoggedIn /\ hdr = OwnToken /\ NoIds(ids) /\ DeleteAuthors(hdr, ids))
         => /\ last'.status = 400
            /\ last'.body.success = FALSE
            /\ last'.body.statusCode = 400
            /\ last'.body.message = "Invalid or empty IDs array"
            /\ last'.body.data = Null
            /\ UNCHANGED <<store, pending>>]_vars

\* DELETE /authors with an empty list and a valid token was answered 400
\* while authors exist
C12_Witness ==
    /\ last.req.route = "DELETE /authors"
    /\ last.req.cred.as = "access"
    /\ last.req.cred.secret = ACCESS_TOKEN_SECRET
    /\ ~last.req.cred.expired
    /\ last.req.payload.ids.isArray
    /\ last.req.payload.ids.items = {}
    /\ last.status = 400
    /\ authors # {}

-----------------------------------------------------------------------------
(* C13: /users/me touches the row of the token's subject only *)

\* the rows of users that belong to somebody other than u
RowsOfOthers(table, u) == {r \in table : r.id # u}

\* what a response may show of user u: the selected columns of a row of u
ShowsRowOf(table, u) ==
    /\ last'.body.data.id = u
    /\ last'.body.data \in {UserColumns(r) : r \in {x \in table : x.id = u}}

-----------------------------------------------------------------------------
(* C14: the row is deleted between a handler's lookup and its mutation *)

\* the step answers with a failure envelope
FailureResponse ==
    /\ last'.status >= 400
    /\ "success" \in DOMAIN last'.body
    /\ last'.body.success = FALSE

\* C14: when a handler of PUT /users/me, DELETE /users/me or PUT /authors/:id
\* that found its row at the lookup comes to its mutation and the row has
\* been deleted in between, the response is a failure, not a 200.
C14_DeletedInBetweenFails ==
    [][\A k \in BagToSet(pending) :
         /\ (DeleteMeDel(k) /\ ById(users, k.id) = {}) => FailureResponse
         /\ (PutMeUpdate(k) /\ ById(users, k.id) = {}) => FailureResponse
         /\ (PutAuthorUpdate(k) /\ ById(authors, k.id) = {}) => FailureResponse]_vars

\* PUT /users/me was answered 200 without data: its update matched no row,
\* the user having been deleted after the lookup
C14_Witness ==
    /\ last.req.route = "PUT /users/me"
    /\ last.status = 200
    /\ last.body.success = TRUE
    /\ "data" \notin DOMAIN last.body
    /\ ById(users, last.req.cred.sub) = {}

-----------------------------------------------------------------------------
(* C15: the order of the validation gate and the credential verifier *)

\* authenticate turns the header down
LacksValidToken(hdr) == ~authenticate(hdr, now).next

\* the step answers with validate's 400
ValidationFailure ==
    /\ last'.status = 400
    /\ last'.body.message = "Validation failed"
    /\ UNCHANGED <<store, pending>>

\* C15: on POST /authors, PUT /authors/:id and PUT /users/me a request whose
\* payload fails validation and whose header carries no valid access token
\* is answered by the validation failure (400), the credential check coming
\* after validation.
C15_ValidationBeforeCredentials ==
    [][\A hdr \in OwnHeaders :
         LacksValidToken(hdr) =>
           /\ \A body \in AuthorBodies :
                AuthorRules(body) # <<>> =>
                  /\ CreateAuthor(hdr, body) => ValidationFailure
                  /\ \A id \in AuthorIds :
                       PutAuthorLookup(hdr, id, body) => ValidationFailure
           /\ \A body \in PutMeBodies :
                PutMeRules(body) # <<>> =>
                  (PutMeLookup(hdr, body) => ValidationFailure)]_vars

\* POST /authors with a payload that fails validation and with no
\* Authorization header was answered 401 by authenticate
C15_Witness ==
    /\ last.req.route = "POST /authors"
    /\ last.req.cred.scheme # "Bearer"
    /\ AuthorRules(last.req.payload) # <<>>
    /\ last.status = 401
    /\ DOMAIN last.body = {"error"}

-----------------------------------------------------------------------------
(* C16: the token of a user that deleted itself *)

\* the serial has handed out id u and no row has it: user u was deleted
\* (or its insert failed, and then no token names u)
Gone(u) == u < nextUserId /\ \A r \in users : r.id # u

\* the ids the serial has handed out so far
IssuedIds == 1..(nextUserId - 1)

\* an id that is gone stays gone, whoever registers: every row has an id the
\* serial handed out, and a new row takes the serial's next id
IdNeverReused ==
    /\ \A r \in users : r.id \in IssuedIds
    /\ \A u \in IssuedIds : Gone(u) => Gone(u)'

\* GET, DELETE and PUT /users/me sent with the unexpired access token of a
\* user that is gone: 404, nothing changed; bodies are the PUT payloads held
\* to be answered 404, the others are answered by validate
GoneUserIsNotFound(bodies) ==
    \A hdr \in OwnHeaders :
      (LoggedIn /\ hdr = OwnToken /\ Gone(hdr.token.payload.id)) =>
        /\ GetMe(hdr) => NotFound
        /\ DeleteMeLookup(hdr) => NotFound
        /\ \A body \in PutMeBodies :
             PutMeLookup(hdr, body) =>
               IF body \in bodies THEN NotFound ELSE ValidationFailure

====
